---- MODULE Spec2Model ----
(***************************************************************************)
(* Model of github.com/halimath/healthcheck: the Handler's check registry  *)
(* (checks, guarded by a sync.RWMutex), AddCheck, ExecuteReadyChecks (an   *)
(* errgroup fan-out under a context bounded by ReadynessTimeout) and the   *)
(* readiness HTTP handler built on it.                                     *)
(*                                                                         *)
(* Time is counted in ticks.  A context's deadline is kept as the number   *)
(* of ticks left until it is reached; a set, empty for "no deadline".      *)
(***************************************************************************)
EXTENDS Integers, Sequences, FiniteSets, TLC

\* ------------------------------------------------------------------ bounds
NumEvals == 2          \* readiness evaluations (one goroutine each)
NumAdders == 2         \* goroutines calling AddCheck (Spec runs the first only)
MaxChecks == 2         \* registrations the model follows
MaxTimeout == 1        \* largest ReadynessTimeout (in ticks) the model configures
MaxCallerDelay == 2    \* furthest deadline of a caller's context (in ticks)
MaxData == 1           \* values the caller stores in its info map: 0..MaxData
MaxStatus == 599       \* the highest response status a URL check is run on

Evals == 1..NumEvals
Adders == 1..NumAdders

\* ------------------------------------------------------------------ errors
\* error values: <<kind, check index>>
Nil == <<"nil", 0>>
Canceled == <<"context canceled", 0>>
DeadlineExceeded == <<"context deadline exceeded", 0>>
CheckErr(i) == <<"check failed", i>>

\* ------------------------------------------------------------------ checks
\* A registered Check is described by what its Check(ctx) does:
\*   ok       returns nil, never looks at ctx
\*   fail     returns an error of its own, never looks at ctx
\*   okCtx    returns ctx.Err() when ctx is done as it returns, nil otherwise
CheckKinds == {"ok", "fail", "okCtx"}
ObservesCtx(k) == k = "okCtx"

\* variant: a check that is meant to observe ctx never looks at it
CheckOutcomeBlind(k, i, cerr) == IF k = "fail" THEN CheckErr(i) ELSE Nil

\* c.Check(ctx) of the check at position i of the snapshot, returning while the
\* context's error is cerr
CheckOutcome(k, i, cerr) ==
    IF ObservesCtx(k) /\ cerr # Nil THEN cerr
    ELSE IF k = "fail" THEN CheckErr(i)
    ELSE Nil

\* variant: every return overwrites the group's error
ErrLast(cur, err) == err

\* variant: the last failure wins
ErrLastFailure(cur, err) == IF err # Nil THEN err ELSE cur

\* errgroup.Group.Go: only the first non-nil error of the group is kept
ErrOnce(cur, err) == IF cur = Nil THEN err ELSE cur

\* variant: a later cause replaces the error, and "nothing" clears it
CtxEndLast(cur, cause) == cause

\* a context's error once something ends it: the first cause sticks
CtxEnd(cur, cause) == IF cur = Nil THEN cause ELSE cur

\* variant: the timer of a deadline never fires
ExpiredNever(dl) == FALSE

\* a deadline that has been reached
Expired(dl) == 0 \in dl

SetMin(S) == CHOOSE x \in S : \A y \in S : x <= y

\* variant: the timeout replaces the deadline the caller brought
BoundedDeadlineOwn(dl, timeout) ==
    IF timeout > 0 THEN {timeout} ELSE dl

\* if h.ReadynessTimeout > 0 { ctx, cancel = context.WithTimeout(ctx, ...) }
BoundedDeadline(dl, timeout) ==
    IF timeout > 0 THEN {SetMin(dl \cup {timeout})} ELSE dl

\* context.WithTimeout keeps the parent's deadline when that one is earlier
TimeoutBinds(dl, timeout) == timeout > 0 /\ \A d \in dl : timeout <= d

VARIABLES
    checks,            \* h.checks: sequence of check kinds
    ErrorLogger,       \* h.ErrorLogger # nil
    ReadynessTimeout,  \* h.ReadynessTimeout
    pc,                \* position of each evaluation
    ctxDeadline,       \* ctx.Deadline(): the caller's ctx, then the bounded one
    ctxErr,            \* ctx.Err(): the caller's ctx, then the one of the checks
    timeoutBound,      \* the bounded deadline is the one ReadynessTimeout set
    snap,              \* the slice the launch loop ranges over
    task,              \* per launched check: "running" or "done"
    gerr,              \* the errgroup's err
    arrivals,          \* history: <<check, outcome, deadline reached>> in order of return
    logged,            \* history: errors passed to h.ErrorLogger by this call
    result,            \* value returned by ExecuteReadyChecks
    status,            \* status code written by handleReady (0: none yet)
    pcA,               \* position of each AddCheck caller
    argA,              \* the check being registered
    readA,             \* the value of h.checks that append was given
    timeoutOpt,        \* the WithReadynessTimeout option given to New: {} or {t}
    LivePath,          \* the package variable LivePath
    ReadyPath,         \* the package variable ReadyPath
    mux,               \* h.mux: the <<pattern, handler>> pairs registered
    infoData,          \* the map the caller passes to EnableInfo
    infoPayload,       \* h.infoPayload
    resp,              \* last answer to a request other than a readiness request
    probe              \* last run of a bundled check: <<check, inputs, outcome>>,
                       \* for a ping check followed by the contexts PingContext got

vars == <<checks, ErrorLogger, ReadynessTimeout, pc, ctxDeadline, ctxErr,
          timeoutBound, snap, task, gerr, arrivals, logged, result, status, pcA, argA, readA,
          timeoutOpt, LivePath, ReadyPath, mux, infoData, infoPayload, resp, probe>>

config == <<ErrorLogger, ReadynessTimeout>>
\* what the readiness engine never touches
front == <<timeoutOpt, LivePath, ReadyPath, mux, infoData, infoPayload, resp, probe>>
evalVars == <<ctxDeadline, ctxErr, timeoutBound, snap, task, gerr, arrivals, logged, result,
              status>>

\* ------------------------------------------------------------------ lock
\* h.lock (sync.RWMutex), read from the callers' positions
HoldsRLock(e) == pc[e] \in {"locked", "launch", "wait", "log", "ret"}
Readers == {e \in Evals : HoldsRLock(e)}
\* variant: readers never queue behind a writer
WriterNever == FALSE

\* a writer that has announced itself (pending or holding) keeps new readers out
WriterAnnounced == \E a \in Adders : pcA[a] \in {"lockwait", "locked", "append"}
\* variant: readers give the lock up when their launch loop is over
CanLockAfterLaunch == \A e \in Evals : pc[e] \notin {"locked", "launch"}

\* Lock() proceeds once the readers that hold the lock have left
CanLock == Readers = {}

\* between the call of ExecuteReadyChecks and its return
Active(e) == pc[e] \in {"rblocked", "locked", "launch", "wait", "log", "ret"}
\* while the context handed to the checks exists
InFlight(e) == pc[e] \in {"launch", "wait", "log", "ret"}
Returned(e) == pc[e] \in {"status", "done"}

DefaultLivePath == "/livez"
DefaultReadyPath == "/readyz"
InfoPath == "/infoz"
DefaultReadynessCheckTimeout == 10

\* no answer yet
NoResp == <<"", 0, <<>>>>
\* no bundled check run yet
NoProbe == <<"none", <<>>, Nil>>

\* New: ReadynessTimeout is the default unless an option sets it
NewTimeout(opt) ==
    IF opt = {} THEN DefaultReadynessCheckTimeout ELSE CHOOSE t \in opt : TRUE

\* New: the routes, under the paths the package variables hold at that time
NewMux(live, ready) == {<<live, "live">>, <<ready, "ready">>}

\* no call made yet, nothing registered, no request answered
Fresh ==
    /\ checks = <<>>
    /\ pc = [e \in Evals |-> "idle"]
    /\ ctxDeadline = [e \in Evals |-> {}]
    /\ ctxErr = [e \in Evals |-> Nil]
    /\ timeoutBound = [e \in Evals |-> FALSE]
    /\ snap = [e \in Evals |-> <<>>]
    /\ task = [e \in Evals |-> <<>>]
    /\ gerr = [e \in Evals |-> Nil]
    /\ arrivals = [e \in Evals |-> <<>>]
    /\ logged = [e \in Evals |-> <<>>]
    /\ result = [e \in Evals |-> Nil]
    /\ status = [e \in Evals |-> 0]
    /\ pcA = [a \in Adders |-> "idle"]
    /\ argA = [a \in Adders |-> "ok"]
    /\ readA = [a \in Adders |-> <<>>]
    /\ infoData = [k \in {"custom"} |-> 0]
    /\ infoPayload = <<>>
    /\ resp = NoResp
    /\ probe = NoProbe

\* the handler New(opts...) returns, the package variables at their defaults
AfterNew(opt, logger) ==
    /\ Fresh
    /\ ErrorLogger = logger
    /\ timeoutOpt = opt
    /\ ReadynessTimeout = NewTimeout(opt)
    /\ LivePath = DefaultLivePath
    /\ ReadyPath = DefaultReadyPath
    /\ mux = NewMux(DefaultLivePath, DefaultReadyPath)

\* a handler made with WithReadynessTimeout(t), with or without an ErrorLogger
Init ==
    \E t \in 0..MaxTimeout, logger \in BOOLEAN : AfterNew({t}, logger)

\* ------------------------------------------------------------------ AddCheck
\* AddCheck / AddCheckFunc is called with check k
AddCheckCall(a, k) ==
    /\ pcA[a] = "idle"
    /\ Len(checks) + Cardinality({b \in Adders : pcA[b] # "idle"}) < MaxChecks
    /\ pcA' = [pcA EXCEPT ![a] = "called"]
    /\ argA' = [argA EXCEPT ![a] = k]
    /\ UNCHANGED <<checks, config, front, pc, evalVars, readA>>

\* h.lock.Lock(): one writer at a time announces itself to the readers
AddCheckAnnounce(a) ==
    /\ pcA[a] = "called"
    /\ ~WriterAnnounced
    /\ pcA' = [pcA EXCEPT ![a] = "lockwait"]
    /\ UNCHANGED <<checks, config, front, pc, evalVars, argA, readA>>

\* h.lock.Lock() returns
AddCheckLock(a) ==
    /\ pcA[a] = "lockwait"
    /\ CanLock
    /\ pcA' = [pcA EXCEPT ![a] = "locked"]
    /\ UNCHANGED <<checks, config, front, pc, evalVars, argA, readA>>

\* variant: Unlock leaves the readers behind the writer asleep
AdmitNone(p) == p

\* h.lock.Unlock() lets in the readers that queued up behind the writer
Admit(p) == IF p = "rblocked" THEN "locked" ELSE p

\* append(h.checks, c) is given the value of h.checks
AddCheckRead(a) ==
    /\ pcA[a] = "locked"
    /\ readA' = [readA EXCEPT ![a] = checks]
    /\ pcA' = [pcA EXCEPT ![a] = "append"]
    /\ UNCHANGED <<checks, config, front, pc, evalVars, argA>>

\* h.checks = append(...) is stored, then the deferred h.lock.Unlock(), which
\* lets in the readers that queued up behind the writer
AddCheckAppend(a) ==
    /\ pcA[a] = "append"
    /\ checks' = Append(readA[a], argA[a])
    /\ readA' = [readA EXCEPT ![a] = <<>>]
    /\ pcA' = [pcA EXCEPT ![a] = "idle"]
    /\ pc' = [e \in Evals |-> Admit(pc[e])]
    /\ UNCHANGED <<config, front, evalVars, argA>>

\* ------------------------------------------------------- ExecuteReadyChecks
\* the deadline of the context a caller passes in
CallerDeadlines == {{}} \cup {{d} : d \in 0..MaxCallerDelay}

\* handleReady calls ExecuteReadyChecks(r.Context()) (or a caller calls it
\* with its own ctx); h.lock.RLock() returns, or queues behind a writer
Call(e, dl) ==
    /\ pc[e] = "idle"
    /\ pc' = [pc EXCEPT ![e] = IF WriterAnnounced THEN "rblocked" ELSE "locked"]
    /\ ctxDeadline' = [ctxDeadline EXCEPT ![e] = dl]
    /\ ctxErr' = [ctxErr EXCEPT ![e] = IF Expired(dl) THEN DeadlineExceeded ELSE Nil]
    /\ UNCHANGED <<checks, config, front, timeoutBound, snap, task, gerr, arrivals,
                   logged, result, status, pcA, argA, readA>>

\* the bounded context, the errgroup with its context (a child: it starts
\* out with the error of a parent that is done), and the start of the loop
\* over h.checks
Setup(e) ==
    /\ pc[e] = "locked"
    /\ ctxDeadline' = [ctxDeadline EXCEPT ![e] = BoundedDeadline(@, ReadynessTimeout)]
    /\ timeoutBound' = [timeoutBound EXCEPT ![e] =
            TimeoutBinds(ctxDeadline[e], ReadynessTimeout)]
    /\ snap' = [snap EXCEPT ![e] = checks]
    /\ pc' = [pc EXCEPT ![e] = IF Len(checks) = 0 THEN "wait" ELSE "launch"]
    /\ UNCHANGED <<checks, config, front, ctxErr, task, gerr, arrivals, logged, result,
                   status, pcA, argA, readA>>

\* variant: a check is passed over once the group has failed or the context
\* is done
GoUnlessFailed(e) ==
    Append(task[e], IF gerr[e] # Nil \/ ctxErr[e] # Nil THEN "done" ELSE "running")

\* eg.Go starts the goroutine of the next check, whatever the state of the
\* group and of its context (the group has no limit)
Go(e) == Append(task[e], "running")

\* one iteration of the loop: eg.Go(func() error { return c.Check(ctx) })
Launch(e) ==
    /\ pc[e] = "launch"
    /\ task' = [task EXCEPT ![e] = Go(e)]
    /\ pc' = [pc EXCEPT ![e] =
            IF Len(task[e]) + 1 = Len(snap[e]) THEN "wait" ELSE "launch"]
    /\ UNCHANGED <<checks, config, front, ctxDeadline, timeoutBound, ctxErr, snap, gerr, arrivals,
                   logged, result, status, pcA, argA, readA>>

\* variant: one context shared by all evaluations of the handler
CancelAllOnError(e, err) ==
    [f \in Evals |->
        IF err # Nil /\ gerr[e] = Nil THEN CtxEnd(ctxErr[f], Canceled) ELSE ctxErr[f]]

\* the first error of the group of evaluation e cancels the context that
\* errgroup.WithContext derived for this call, and no other
CancelOnError(e, err) ==
    [ctxErr EXCEPT ![e] =
        IF err # Nil /\ gerr[e] = Nil THEN CtxEnd(@, Canceled) ELSE @]

\* the goroutine of check i returns: a first error is kept by the group and
\* cancels the group's context
TaskFinish(e, i) ==
    /\ i \in 1..Len(task[e])
    /\ task[e][i] = "running"
    /\ LET err == CheckOutcome(snap[e][i], i, ctxErr[e]) IN
        /\ task' = [task EXCEPT ![e][i] = "done"]
        /\ arrivals' = [arrivals EXCEPT ![e] =
                Append(@, <<i, err, Expired(ctxDeadline[e])>>)]
        /\ gerr' = [gerr EXCEPT ![e] = ErrOnce(@, err)]
        /\ ctxErr' = CancelOnError(e, err)
    /\ UNCHANGED <<checks, config, front, pc, ctxDeadline, timeoutBound, snap, logged, result,
                   status, pcA, argA, readA>>

\* variant: Wait returns as soon as the group has an error
WaitFirstErr(e) == gerr[e] # Nil \/ \A i \in 1..Len(task[e]) : task[e][i] = "done"

\* eg.Wait() returns when every goroutine of the group has returned
WaitDone(e) == \A i \in 1..Len(task[e]) : task[e][i] = "done"

\* variant: the logger is called whatever the error is
ShouldLogAlways(err) == ErrorLogger

\* if err != nil { if h.ErrorLogger != nil { ... } }
ShouldLog(err) == err # Nil /\ ErrorLogger

\* variant: a context that is done counts as a failure
WaitCtxErr(e) == ErrOnce(gerr[e], ctxErr[e])

\* the error eg.Wait() yields
WaitErr(e) == gerr[e]

\* eg.Wait(): joins the goroutines, cancels the group's context, yields err
Wait(e) ==
    /\ pc[e] = "wait"
    /\ WaitDone(e)
    /\ ctxErr' = [ctxErr EXCEPT ![e] = CtxEnd(@, Canceled)]
    /\ pc' = [pc EXCEPT ![e] = IF ShouldLog(WaitErr(e)) THEN "log" ELSE "ret"]
    /\ UNCHANGED <<checks, config, front, ctxDeadline, timeoutBound, snap, task, gerr, arrivals,
                   logged, result, status, pcA, argA, readA>>

\* h.ErrorLogger(err)
LogError(e) ==
    /\ pc[e] = "log"
    /\ logged' = [logged EXCEPT ![e] = Append(@, WaitErr(e))]
    /\ pc' = [pc EXCEPT ![e] = "ret"]
    /\ UNCHANGED <<checks, config, front, ctxDeadline, timeoutBound, ctxErr, snap, task, gerr,
                   arrivals, result, status, pcA, argA, readA>>

\* return err / return nil, with the deferred cancel() and h.lock.RUnlock()
Return(e) ==
    /\ pc[e] = "ret"
    /\ result' = [result EXCEPT ![e] = WaitErr(e)]
    /\ pc' = [pc EXCEPT ![e] = "status"]
    /\ UNCHANGED <<checks, config, front, ctxDeadline, timeoutBound, ctxErr, snap, task, gerr,
                   arrivals, logged, status, pcA, argA, readA>>

StatusNoContent == 204
StatusServiceUnavailable == 503

\* variant: the two status codes swapped
ReadyStatusSwapped(err) == IF err # Nil THEN StatusNoContent ELSE StatusServiceUnavailable

ReadyStatus(err) == IF err # Nil THEN StatusServiceUnavailable ELSE StatusNoContent

\* handleReady: w.WriteHeader(...) once ExecuteReadyChecks has returned
WriteStatus(e) ==
    /\ pc[e] = "status"
    /\ status' = [status EXCEPT ![e] = ReadyStatus(result[e])]
    /\ pc' = [pc EXCEPT ![e] = "done"]
    /\ UNCHANGED <<checks, config, front, ctxDeadline, timeoutBound, ctxErr, snap, task, gerr,
                   arrivals, logged, result, pcA, argA, readA>>

\* ------------------------------------------------------------ environment
\* the caller cancels the context it passed in (seen only if ctx is not done)
CallerCancel(e) ==
    /\ Active(e)
    /\ ctxErr[e] = Nil
    /\ ctxErr' = [ctxErr EXCEPT ![e] = Canceled]
    /\ UNCHANGED <<checks, config, front, pc, ctxDeadline, timeoutBound, snap, task, gerr, arrivals,
                   logged, result, status, pcA, argA, readA>>

\* the deadline one tick later
TickDeadline(dl) == {IF d > 0 THEN d - 1 ELSE d : d \in dl}

\* a tick of the clock: a context whose deadline is reached ends with
\* DeadlineExceeded
Tick ==
    /\ \E e \in Evals : Active(e) /\ \E d \in ctxDeadline[e] : d > 0
    /\ ctxDeadline' = [e \in Evals |->
            IF Active(e) THEN TickDeadline(ctxDeadline[e]) ELSE ctxDeadline[e]]
    /\ ctxErr' = [e \in Evals |->
            IF Active(e) /\ Expired(TickDeadline(ctxDeadline[e]))
            THEN CtxEnd(ctxErr[e], DeadlineExceeded) ELSE ctxErr[e]]
    /\ UNCHANGED <<checks, config, front, pc, timeoutBound, snap, task, gerr, arrivals,
                   logged, result, status, pcA, argA, readA>>

\* the goroutines that register checks under Spec
SpecAdders == {1}

Next ==
    \/ \E a \in SpecAdders, k \in CheckKinds : AddCheckCall(a, k)
    \/ \E a \in SpecAdders : AddCheckAnnounce(a)
    \/ \E a \in SpecAdders : AddCheckLock(a)
    \/ \E a \in SpecAdders : AddCheckRead(a)
    \/ \E a \in SpecAdders : AddCheckAppend(a)
    \/ \E e \in Evals, dl \in CallerDeadlines : Call(e, dl)
    \/ \E e \in Evals : Setup(e)
    \/ \E e \in Evals : Launch(e)
    \/ \E e \in Evals, i \in 1..MaxChecks : TaskFinish(e, i)
    \/ \E e \in Evals : Wait(e)
    \/ \E e \in Evals : LogError(e)
    \/ \E e \in Evals : Return(e)
    \/ \E e \in Evals : WriteStatus(e)
    \/ \E e \in Evals : CallerCancel(e)
    \/ Tick

Spec == Init /\ [][Next]_vars

\* ------------------------------------------------------------ ServeHTTP
\* the paths requests are made on
Paths == {"/livez", "/readyz", "/infoz", "/alive", "/ready"}

\* variant: the liveness and readiness routes follow the package variables
RouteByVars(p) ==
    IF p = LivePath THEN "live"
    ELSE IF p = ReadyPath THEN "ready"
    ELSE IF <<p, "info">> \in mux THEN "info" ELSE "notfound"

\* h.mux.ServeHTTP: the handler registered under exactly this path
Route(p) ==
    IF \E r \in mux : r[1] = p THEN (CHOOSE r \in mux : r[1] = p)[2] ELSE "notfound"

\* variant: liveness reports what the checks said
LiveStatusByChecks ==
    IF \E e \in Evals : gerr[e] # Nil THEN StatusServiceUnavailable ELSE StatusNoContent

\* handleLive writes this status whatever the state of the handler
LiveStatus == StatusNoContent

\* a request on the liveness route: handleLive
ServeLive(p) ==
    /\ Route(p) = "live"
    /\ resp' = <<p, LiveStatus, <<>>>>
    /\ UNCHANGED <<checks, config, pc, evalVars, pcA, argA, readA, timeoutOpt, LivePath,
                   ReadyPath, mux, infoData, infoPayload, probe>>

\* -------------------------------------------------------------------------
\* One readiness call next to all the registering goroutines and to liveness
\* requests, on a handler made with or without WithReadynessTimeout
InitSingle ==
    \E opt \in {{}} \cup {{t} : t \in 0..MaxTimeout}, logger \in BOOLEAN :
        AfterNew(opt, logger)

NextSingle ==
    \/ \E a \in Adders, k \in CheckKinds : AddCheckCall(a, k)
    \/ \E a \in Adders : AddCheckAnnounce(a)
    \/ \E a \in Adders : AddCheckLock(a)
    \/ \E a \in Adders : AddCheckRead(a)
    \/ \E a \in Adders : AddCheckAppend(a)
    \/ \E dl \in CallerDeadlines : Call(1, dl)
    \/ Setup(1)
    \/ Launch(1)
    \/ \E i \in 1..MaxChecks : TaskFinish(1, i)
    \/ Wait(1)
    \/ LogError(1)
    \/ Return(1)
    \/ WriteStatus(1)
    \/ CallerCancel(1)
    \/ Tick
    \/ \E p \in Paths : ServeLive(p)

SpecSingle == InitSingle /\ [][NextSingle]_vars

\* Fair scheduling: a goroutine that can take its next step takes it. A
\* check that was started returns (TaskFinish). A goroutine in Lock() gets
\* the writer mutex although others may take it in between (sync.Mutex hands
\* the mutex to a waiter that has waited long), hence strong fairness there.
\* Callers are free never to call, to cancel, and time is free to stand.
FairSingle ==
    /\ \A a \in Adders :
        /\ SF_vars(AddCheckAnnounce(a))
        /\ WF_vars(AddCheckLock(a))
        /\ WF_vars(AddCheckRead(a))
        /\ WF_vars(AddCheckAppend(a))
    /\ WF_vars(Setup(1))
    /\ WF_vars(Launch(1))
    /\ \A i \in 1..MaxChecks : WF_vars(TaskFinish(1, i))
    /\ WF_vars(Wait(1))
    /\ WF_vars(LogError(1))
    /\ WF_vars(Return(1))
    /\ WF_vars(WriteStatus(1))

SpecSingleFair == SpecSingle /\ FairSingle

\* -------------------------------------------------- paths, New, EnableInfo
\* values given to the package variables (a value already taken by another
\* route makes HandleFunc panic and is left out)
LivePaths == {DefaultLivePath, "/alive"}
ReadyPaths == {DefaultReadyPath, "/ready"}

\* New has returned the handler
Constructed == mux # {}

\* the info route is registered
InfoEnabled == <<InfoPath, "info">> \in mux

\* the program assigns LivePath
SetLivePath(p) ==
    /\ p # LivePath
    /\ LivePath' = p
    /\ UNCHANGED <<checks, config, pc, evalVars, pcA, argA, readA, timeoutOpt, ReadyPath, mux,
                   infoData, infoPayload, resp, probe>>

\* the program assigns ReadyPath
SetReadyPath(p) ==
    /\ p # ReadyPath
    /\ ReadyPath' = p
    /\ UNCHANGED <<checks, config, pc, evalVars, pcA, argA, readA, timeoutOpt, LivePath, mux,
                   infoData, infoPayload, resp, probe>>

\* New(opts...): the options are applied to the defaults, and the liveness and
\* readiness routes are registered under the values LivePath and ReadyPath
\* hold now
New(opt, logger) ==
    /\ ~Constructed
    /\ timeoutOpt' = opt
    /\ ReadynessTimeout' = NewTimeout(opt)
    /\ ErrorLogger' = logger
    /\ mux' = NewMux(LivePath, ReadyPath)
    /\ UNCHANGED <<checks, pc, evalVars, pcA, argA, readA, LivePath, ReadyPath, infoData,
                   infoPayload, resp, probe>>

\* the most the caller's map holds
InfoKeys == <<"build_settings", "custom", "version">>

\* if ok { infoData["version"] = ...; infoData["build_settings"] = ... }
WithBuildInfo(m, ok) ==
    IF ok
        THEN [k \in DOMAIN m \cup {"version", "build_settings"} |->
                IF k \in {"version", "build_settings"} THEN 0 ELSE m[k]]
        ELSE m

\* json.Marshal of a map: the members present, in the order of their keys
Marshal(m) ==
    LET F[i \in 0..Len(InfoKeys)] ==
            IF i = 0 THEN <<>>
            ELSE IF InfoKeys[i] \in DOMAIN m
                THEN Append(F[i - 1], <<InfoKeys[i], m[InfoKeys[i]]>>)
                ELSE F[i - 1]
    IN  <<F[Len(InfoKeys)]>>

\* EnableInfo(infoData), with the caller's map (given) or nil; ok is what
\* debug.ReadBuildInfo reports. The build information is stored into the
\* map the caller gave. A second call panics in h.mux.HandleFunc, the
\* pattern being registered already, and ends the program.
EnableInfo(given, ok) ==
    /\ Constructed
    /\ ~InfoEnabled
    /\ LET m == WithBuildInfo(IF given THEN infoData ELSE [k \in {} |-> 0], ok)
       IN  /\ infoData' = IF given THEN m ELSE infoData
           /\ infoPayload' = Marshal(m)
    /\ mux' = mux \cup {<<InfoPath, "info">>}
    /\ UNCHANGED <<checks, config, pc, evalVars, pcA, argA, readA, timeoutOpt, LivePath,
                   ReadyPath, resp, probe>>

\* the caller stores into its map
ChangeInfoData(v) ==
    /\ infoData["custom"] # v
    /\ infoData' = [infoData EXCEPT !["custom"] = v]
    /\ UNCHANGED <<checks, config, pc, evalVars, pcA, argA, readA, timeoutOpt, LivePath,
                   ReadyPath, mux, infoPayload, resp, probe>>

\* variant: the body is made from the caller's map at each request
InfoBodyLive == Marshal(infoData)

\* w.Write(h.infoPayload)
InfoBody == infoPayload

\* a request on the info route: handleInfo
ServeInfo(p) ==
    /\ Route(p) = "info"
    /\ resp' = <<p, 200, InfoBody>>
    /\ UNCHANGED <<checks, config, pc, evalVars, pcA, argA, readA, timeoutOpt, LivePath,
                   ReadyPath, mux, infoData, infoPayload, probe>>

\* a request on a path without a route: the mux answers 404
ServeNotFound(p) ==
    /\ Constructed
    /\ Route(p) = "notfound"
    /\ resp' = <<p, 404, <<>>>>
    /\ UNCHANGED <<checks, config, pc, evalVars, pcA, argA, readA, timeoutOpt, LivePath,
                   ReadyPath, mux, infoData, infoPayload, probe>>

\* a request on the readiness route of a handler without checks and without
\* AddCheck in progress: RLock returns at once, the loop body never runs,
\* eg.Wait() returns nil
ServeReadyNoChecks(p) ==
    /\ Route(p) = "ready"
    /\ checks = <<>>
    /\ ~WriterAnnounced
    /\ resp' = <<p, ReadyStatus(Nil), <<>>>>
    /\ UNCHANGED <<checks, config, pc, evalVars, pcA, argA, readA, timeoutOpt, LivePath,
                   ReadyPath, mux, infoData, infoPayload, probe>>

\* -------------------------------------------------------------------------
\* The program around the handler: it assigns the path variables, makes the
\* handler, enables the info endpoint, changes its map, and sends requests
InitFront ==
    /\ Fresh
    /\ ErrorLogger = FALSE
    /\ timeoutOpt = {}
    /\ ReadynessTimeout = 0
    /\ LivePath = DefaultLivePath
    /\ ReadyPath = DefaultReadyPath
    /\ mux = {}

NextFront ==
    \/ \E p \in LivePaths : SetLivePath(p)
    \/ \E p \in ReadyPaths : SetReadyPath(p)
    \/ \E opt \in {{}} \cup {{t} : t \in 0..MaxTimeout}, logger \in BOOLEAN : New(opt, logger)
    \/ \E given \in BOOLEAN, ok \in BOOLEAN : EnableInfo(given, ok)
    \/ \E v \in 0..MaxData : ChangeInfoData(v)
    \/ \E p \in Paths : ServeLive(p)
    \/ \E p \in Paths : ServeReadyNoChecks(p)
    \/ \E p \in Paths : ServeInfo(p)
    \/ \E p \in Paths : ServeNotFound(p)

SpecFront == InitFront /\ [][NextFront]_vars

\* ---------------------------------------------------------- bundled checks
ErrURLCheckFailed == <<"URL check failed", 0>>

\* fmt.Errorf("%w: ...", sentinel, ...): the sentinel with the detail
Wrap(sentinel, detail) == <<sentinel[1], detail>>

\* errors.Is(err, target), for a sentinel target
ErrorIs(err, target) == err # Nil /\ err[1] = target[1]

StatusBadRequest == 400

\* response statuses a call yields: 100..MaxStatus
StatusCodes == 100..MaxStatus

\* variant: only the statuses below 300 pass
CheckHTTPResponseStrict(methodOK, urlOK, doErr, code) ==
    IF ~(methodOK /\ urlOK) THEN Wrap(ErrURLCheckFailed, 1)
    ELSE IF doErr THEN Wrap(ErrURLCheckFailed, 2)
    ELSE IF code >= 300 THEN Wrap(ErrURLCheckFailed, code)
    ELSE Nil

\* the Check made by CheckHTTPResponse(method, url, client), and by CheckURL
\* with method GET: http.NewRequestWithContext fails on a malformed method or
\* URL; client.Do fails (doErr) or yields a response with status code
CheckHTTPResponse(methodOK, urlOK, doErr, code) ==
    IF ~(methodOK /\ urlOK) THEN Wrap(ErrURLCheckFailed, 1)
    ELSE IF doErr THEN Wrap(ErrURLCheckFailed, 2)
    ELSE IF code >= StatusBadRequest THEN Wrap(ErrURLCheckFailed, code)
    ELSE Nil

\* one run of a URL check; its outcome depends on nothing but its inputs,
\* so one run from each initial state covers them all
RunURLCheck(methodOK, urlOK, doErr, code) ==
    /\ probe = NoProbe
    /\ probe' = <<"url", <<methodOK, urlOK, doErr, code>>,
                  CheckHTTPResponse(methodOK, urlOK, doErr, code)>>
    /\ UNCHANGED <<checks, config, pc, evalVars, pcA, argA, readA, timeoutOpt, LivePath,
                   ReadyPath, mux, infoData, infoPayload, resp>>

ErrPingCheckFailed == <<"ping check failed", 0>>

\* the error a failing Pinger returns
PingFailed == <<"failed", 0>>

\* A Pinger is described by what its PingContext(ctx) returns:
\*   ok     nil
\*   fail   an error of its own
\*   ctx    ctx.Err(): nil unless ctx is done
PingerKinds == {"ok", "fail", "ctx"}
PingContext(kind, cerr) ==
    IF kind = "ctx" THEN cerr ELSE IF kind = "fail" THEN PingFailed ELSE Nil

\* the contexts a check is run with, by their Err()
CtxStates == {Nil, Canceled, DeadlineExceeded}

\* the text %s formats an error to, by number
Message(err) ==
    IF err = Canceled THEN 1 ELSE IF err = DeadlineExceeded THEN 2 ELSE 3

\* variant: the pinger is called with context.Background()
CheckPingBackground(kind, cerr) ==
    LET err == PingContext(kind, Nil)
    IN  <<IF err # Nil THEN Wrap(ErrPingCheckFailed, Message(err)) ELSE Nil, <<Nil>>>>

\* the Check made by CheckPing(pinger), run with a context whose Err() is
\* cerr: <<the error returned, the contexts PingContext was called with>>
CheckPing(kind, cerr) ==
    LET err == PingContext(kind, cerr)
    IN  <<IF err # Nil THEN Wrap(ErrPingCheckFailed, Message(err)) ELSE Nil, <<cerr>>>>

\* one run of a ping check
RunPingCheck(kind, cerr) ==
    /\ probe = NoProbe
    /\ probe' = <<"ping", <<kind, cerr>>, CheckPing(kind, cerr)[1], CheckPing(kind, cerr)[2]>>
    /\ UNCHANGED <<checks, config, pc, evalVars, pcA, argA, readA, timeoutOpt, LivePath,
                   ReadyPath, mux, infoData, infoPayload, resp>>

\* -------------------------------------------------------------------------
\* The bundled checks run on their own, on every input
InitProbe == Init

NextProbe ==
    \/ \E methodOK \in BOOLEAN, urlOK \in BOOLEAN, doErr \in BOOLEAN, code \in StatusCodes :
          RunURLCheck(methodOK, urlOK, doErr, code)
    \/ \E kind \in PingerKinds, cerr \in CtxStates : RunPingCheck(kind, cerr)

SpecProbe == InitProbe /\ [][NextProbe]_vars

\* ==================================================================
\* Properties
\* ==================================================================
NoFailureBefore(e, k) == \A j \in 1..(k - 1) : arrivals[e][j][2] = Nil
AllLaunchedDone(e) ==
    /\ Len(task[e]) = Len(snap[e])
    /\ \A i \in 1..Len(task[e]) : task[e][i] = "done"

\* C1: when at least one check of an evaluation returned a failure,
\* ExecuteReadyChecks returns a non-nil error, whatever the other checks
\* returned and in whatever order they returned.
C1_FailingCheckFails ==
    \A e \in Evals :
        (Returned(e) /\ \E k \in 1..Len(arrivals[e]) : arrivals[e][k][2] # Nil)
            => result[e] # Nil

\* a failing check returned first, a succeeding one after it
C1_Witness ==
    \E e \in Evals :
        /\ Returned(e)
        /\ Len(arrivals[e]) = 2
        /\ arrivals[e][1][2] = CheckErr(arrivals[e][1][1])
        /\ arrivals[e][2][2] = Nil
        /\ result[e] # Nil

\* C2 as stated: under a readiness timeout, a check (any check) that returns
\* after the deadline, with no check having failed before it, makes
\* ExecuteReadyChecks return DeadlineExceeded.
C2_Original ==
    \A e \in Evals : \A k \in 1..Len(arrivals[e]) :
        (Returned(e) /\ timeoutBound[e] /\ arrivals[e][k][3] /\ NoFailureBefore(e, k))
            => result[e] = DeadlineExceeded

\* C2 amended: when the bounded context ends by its deadline (no failure and
\* no cancellation by the caller ended it before) while a check that observes
\* the context (returns ctx.Err() once ctx is done) is running, and no other
\* check fails before that check returns, ExecuteReadyChecks returns
\* DeadlineExceeded.
C2_DeadlineExceeded ==
    \A e \in Evals : \A k \in 1..Len(arrivals[e]) :
        (/\ Returned(e)
         /\ timeoutBound[e]
         /\ ctxErr[e] = DeadlineExceeded
         /\ arrivals[e][k][3]
         /\ ObservesCtx(snap[e][arrivals[e][k][1]])
         /\ NoFailureBefore(e, k))
            => result[e] = DeadlineExceeded

\* an observing check outlived the timeout next to a check that succeeded
C2_Witness ==
    \E e \in Evals :
        /\ Returned(e)
        /\ timeoutBound[e]
        /\ Len(arrivals[e]) = 2
        /\ arrivals[e][1][2] = Nil
        /\ arrivals[e][2][3]
        /\ ObservesCtx(snap[e][arrivals[e][2][1]])
        /\ result[e] = DeadlineExceeded

\* C3: the error ExecuteReadyChecks returns is the one of the check that
\* was first to return a failure, not the first in registration order; the
\* group's error, once set, is never replaced by a later failure or by the
\* cancellation error a sibling returns.
C3_FirstFailureWins ==
    \A e \in Evals : \A k \in 1..Len(arrivals[e]) :
        (arrivals[e][k][2] # Nil /\ NoFailureBefore(e, k))
            => /\ gerr[e] = arrivals[e][k][2]
               /\ Returned(e) => result[e] = arrivals[e][k][2]

\* the check registered second failed first; the first one, cancelled by
\* that failure, returned the context's error afterwards
C3_Witness ==
    \E e \in Evals :
        /\ Returned(e)
        /\ Len(arrivals[e]) = 2
        /\ arrivals[e][1] = <<2, CheckErr(2), FALSE>>
        /\ arrivals[e][2][1] = 1
        /\ arrivals[e][2][2] = Canceled
        /\ result[e] = CheckErr(2)

\* C4: once eg.Wait() has returned (the call logs, returns, has returned)
\* every check of the snapshot has been launched and has returned.
C4_AllJoined ==
    \A e \in Evals :
        pc[e] \in {"log", "ret", "status", "done"} => AllLaunchedDone(e)

\* the call has returned after a failure cancelled the context while a
\* sibling that ignores the context was still running
C4_Witness ==
    \E e \in Evals :
        /\ Returned(e)
        /\ Len(arrivals[e]) = 2
        /\ arrivals[e][1][2] # Nil
        /\ snap[e][arrivals[e][2][1]] = "ok"
        /\ AllLaunchedDone(e)

SomeRunning(e) == \E i \in 1..Len(task[e]) : task[e][i] = "running"

\* C5 as stated: once a failure is recorded the call returns without waiting
\* for the checks that are still running.
C5_Original ==
    \A e \in Evals : (pc[e] = "wait" /\ gerr[e] # Nil) => ENABLED Wait(e)

\* C5 amended: the first failure cancels the shared context, but the call
\* keeps waiting: while a check is still running, ExecuteReadyChecks does not
\* get past eg.Wait(), and the failure it will return stays the first one.
C5_WaitsForStragglers ==
    [][\A e \in Evals :
        (gerr[e] # Nil /\ SomeRunning(e))
            => /\ ctxErr[e] # Nil
               /\ pc'[e] \in {"launch", "wait"}
               /\ gerr'[e] = gerr[e]]_vars

\* a check has failed, the context is cancelled, the call sits in eg.Wait()
\* and a check that ignores the context is still running
C5_Witness ==
    \E e \in Evals : \E i \in 1..Len(task[e]) :
        /\ pc[e] = "wait"
        /\ gerr[e] # Nil
        /\ ctxErr[e] = Canceled
        /\ task[e][i] = "running"
        /\ snap[e][i] = "ok"

\* C6: with an ErrorLogger configured, a call that returns a failure has
\* called the logger exactly once, with the error it returns, by the time
\* it returns; a call that returns nil has not called it.  Without a logger
\* nothing is logged.
C6_LoggedOnce ==
    \A e \in Evals :
        /\ Len(logged[e]) <= 1
        /\ Returned(e) =>
            logged[e] = IF result[e] # Nil /\ ErrorLogger THEN <<result[e]>> ELSE <<>>

\* two checks failed, the logger was called once with the returned error
C6_Witness ==
    \E e \in Evals :
        /\ ErrorLogger
        /\ Returned(e)
        /\ Len(arrivals[e]) = 2
        /\ arrivals[e][1][2] # Nil
        /\ arrivals[e][2][2] # Nil
        /\ logged[e] = <<result[e]>>

\* C7: an evaluation launches only checks of its snapshot, each at most
\* once, and all of them by the time it returns; while it is in flight the
\* registry is still the snapshot, and afterwards the snapshot is a prefix
\* of the registry: a check registered concurrently is never run by it.
C7_SnapshotOnly ==
    \A e \in Evals :
        /\ Len(task[e]) <= Len(snap[e])
        /\ \A k \in 1..Len(arrivals[e]) :
            /\ arrivals[e][k][1] \in 1..Len(snap[e])
            /\ \A j \in 1..Len(arrivals[e]) :
                arrivals[e][j][1] = arrivals[e][k][1] => j = k
        /\ InFlight(e) => checks = snap[e]
        /\ Returned(e) =>
            /\ Len(arrivals[e]) = Len(snap[e])
            /\ Len(snap[e]) <= Len(checks)
            /\ snap[e] = SubSeq(checks, 1, Len(snap[e]))

\* an AddCheck of a failing check waits for the lock while an evaluation that
\* has run its one check successfully is about to return
C7_Witness ==
    \E e \in Evals, a \in Adders :
        /\ pc[e] = "ret"
        /\ pcA[a] = "lockwait"
        /\ argA[a] = "fail"
        /\ Len(snap[e]) = 1
        /\ Len(arrivals[e]) = 1
        /\ gerr[e] = Nil

\* C8 as stated: the read lock is held only while the checks are copied or
\* iterated, so a writer that waits can take the lock as soon as no
\* evaluation is before or in its launch loop.
C8_Original ==
    \A a \in Adders :
        (pcA[a] = "lockwait" /\ \A e \in Evals : pc[e] \notin {"locked", "launch"})
            => ENABLED AddCheckLock(a)

\* C8 amended: the read lock is held from RLock until ExecuteReadyChecks
\* returns; AddCheck holds the write lock only while no evaluation is
\* between those two points, hence while no check is running.
C8_LockHeldUntilReturn ==
    \A a \in Adders :
        pcA[a] = "locked" =>
            \A e \in Evals :
                /\ pc[e] \notin {"locked", "launch", "wait", "log", "ret"}
                /\ ~SomeRunning(e)

\* AddCheck waits for the lock while an evaluation's checks are running
C8_Witness ==
    \E e \in Evals, a \in Adders :
        /\ pc[e] = "wait"
        /\ SomeRunning(e)
        /\ pcA[a] = "lockwait"

\* C9: when every check of the evaluation returned nil, ExecuteReadyChecks
\* returns nil and handleReady answers 204, in whatever order they returned.
C9_AllSucceed ==
    \A e \in Evals :
        (Returned(e) /\ \A k \in 1..Len(arrivals[e]) : arrivals[e][k][2] = Nil)
            => /\ result[e] = Nil
               /\ pc[e] = "done" => status[e] = StatusNoContent

\* two checks succeeded, the one registered second first
C9_Witness ==
    \E e \in Evals :
        /\ pc[e] = "done"
        /\ Len(arrivals[e]) = 2
        /\ arrivals[e][1][1] = 2
        /\ arrivals[e][1][2] = Nil
        /\ arrivals[e][2][2] = Nil
        /\ status[e] = StatusNoContent

\* C10: with an empty snapshot no task is launched, eg.Wait() does not
\* block, the logger is not called and the call returns nil, whatever
\* ReadynessTimeout is and whether or not the context is done.
C10_NoChecks ==
    \A e \in Evals :
        (Len(snap[e]) = 0 /\ pc[e] \in {"launch", "wait", "log", "ret", "status", "done"})
            => /\ task[e] = <<>>
               /\ arrivals[e] = <<>>
               /\ logged[e] = <<>>
               /\ pc[e] \notin {"launch", "log"}
               /\ pc[e] = "wait" => ENABLED Wait(e)
               /\ Returned(e) => result[e] = Nil

\* no check, a timeout configured, the context's deadline reached: nil
C10_Witness ==
    \E e \in Evals :
        /\ Returned(e)
        /\ snap[e] = <<>>
        /\ ReadynessTimeout > 0
        /\ ctxErr[e] = DeadlineExceeded
        /\ result[e] = Nil

\* C11: while a call is in its launch loop or in eg.Wait(), the context of
\* its checks is done whenever a check of it has failed or its deadline is
\* reached; a context that is done keeps its error until the call returns;
\* and a context that was not done becomes done only by a check's failure,
\* by its deadline, by the caller's cancellation or by eg.Wait() returning.
C11_CancelledAndStays ==
    /\ [](\A e \in Evals :
            (pc[e] \in {"launch", "wait"} /\ (gerr[e] # Nil \/ 0 \in ctxDeadline[e]))
                => ctxErr[e] # Nil)
    /\ [][\A e \in Evals :
            /\ (Active(e) /\ ctxErr[e] # Nil) => ctxErr'[e] = ctxErr[e]
            /\ (Active(e) /\ ctxErr[e] = Nil /\ ctxErr'[e] # Nil) =>
                \/ gerr[e] = Nil /\ gerr'[e] # Nil /\ ctxErr'[e] = Canceled
                \/ 0 \notin ctxDeadline[e] /\ 0 \in ctxDeadline'[e]
                        /\ ctxErr'[e] = DeadlineExceeded
                \/ CallerCancel(e)
                \/ pc[e] = "wait" /\ pc'[e] \in {"log", "ret"}]_vars

\* a context ended by its deadline; a check then failed, the context's
\* error is still DeadlineExceeded
C11_Witness ==
    \E e \in Evals :
        /\ pc[e] = "wait"
        /\ ctxErr[e] = DeadlineExceeded
        /\ gerr[e] = CheckErr(1)
        /\ SomeRunning(e)

\* C12: a step in which a check of one evaluation returns leaves the context
\* of every other evaluation as it is, and a context ends with
\* DeadlineExceeded only when its own deadline is reached.
C12_OwnContext ==
    [][\A e \in Evals :
        /\ \A f \in Evals \ {e} :
            arrivals'[e] # arrivals[e] => ctxErr'[f] = ctxErr[f]
        /\ (Active(e) /\ ctxErr[e] = Nil /\ ctxErr'[e] = DeadlineExceeded)
            => 0 \in ctxDeadline'[e]]_vars

\* two evaluations wait for their checks; a check of one has failed and its
\* context is cancelled, the context of the other is not
C12_Witness ==
    \E e \in Evals, f \in Evals :
        /\ pc[e] = "wait" /\ pc[f] = "wait"
        /\ gerr[e] # Nil /\ ctxErr[e] = Canceled
        /\ ctxErr[f] = Nil /\ SomeRunning(f)

\* C13: the registry is append-only under every interleaving of AddCheck
\* calls with each other and with an evaluation: its length never decreases,
\* the entries it had keep their positions, every AddCheck that completes
\* adds exactly its own check at the end, and nothing else changes it (so no
\* registration is lost and none is entered twice).
C13_AppendOnly ==
    [][/\ Len(checks') >= Len(checks)
       /\ SubSeq(checks', 1, Len(checks)) = checks
       /\ \A a \in Adders :
            (pcA[a] = "append" /\ pcA'[a] = "idle") => checks' = Append(checks, argA[a])
       /\ checks' # checks => \E a \in Adders : pcA[a] = "append" /\ pcA'[a] = "idle"]_vars

\* a second registration is about to store its entry behind the first while
\* a readiness call queues behind it
C13_Witness ==
    \E a \in Adders :
        /\ pcA[a] = "append"
        /\ Len(checks) = 1
        /\ readA[a] = checks
        /\ pc[1] = "rblocked"

\* C14: the context handed to the checks ends at the earlier of the caller's
\* deadline and (start of the evaluation + ReadynessTimeout) when
\* ReadynessTimeout > 0, and at the caller's deadline, if it has one, when
\* ReadynessTimeout is 0; ReadynessTimeout is DefaultReadynessCheckTimeout
\* (10 s) unless WithReadynessTimeout was given, and then the option's value.
C14_Deadline ==
    /\ [](/\ timeoutOpt = {} => ReadynessTimeout = 10
          /\ \A t \in timeoutOpt : ReadynessTimeout = t)
    /\ [][\A e \in Evals :
            (pc[e] = "locked" /\ pc'[e] \in {"launch", "wait"}) =>
                /\ ReadynessTimeout = 0 => ctxDeadline'[e] = ctxDeadline[e]
                /\ (ReadynessTimeout > 0 /\ ctxDeadline[e] = {}) =>
                        ctxDeadline'[e] = {ReadynessTimeout}
                /\ ReadynessTimeout > 0 =>
                        \A d \in ctxDeadline[e] :
                            ctxDeadline'[e] =
                                {IF d <= ReadynessTimeout THEN d ELSE ReadynessTimeout}]_vars

\* no option given, the caller's deadline is nearer than the default timeout:
\* the checks run under the caller's deadline
C14_Witness ==
    /\ timeoutOpt = {}
    /\ pc[1] = "launch"
    /\ ctxDeadline[1] = {MaxCallerDelay}
    /\ ~timeoutBound[1]

\* C15: in every reachable state a request on the liveness route can be
\* answered, the answer is 204 No Content whatever checks are registered,
\* whatever they returned and whatever evaluation or registration is in
\* flight, and answering it starts, runs and finishes no check.
C15_LiveAlwaysNoContent ==
    /\ [](/\ \A p \in Paths : Route(p) = "live" => ENABLED ServeLive(p)
          /\ Route(resp[1]) = "live" => resp[2] = 204)
    /\ [][resp' # resp =>
            /\ Route(resp'[1]) = "live"
            /\ resp'[2] = 204
            /\ UNCHANGED <<checks, pc, evalVars, pcA, argA, readA>>]_vars

\* liveness answered 204 although a check of the evaluation in flight has
\* failed and a registration waits for the lock
C15_Witness ==
    /\ resp = <<DefaultLivePath, 204, <<>>>>
    /\ pc[1] = "wait"
    /\ gerr[1] # Nil
    /\ \E a \in Adders : pcA[a] = "lockwait"

\* C16: a readiness request is answered 204 exactly when ExecuteReadyChecks
\* returned nil and 503 exactly when it returned an error; no status is
\* written before the evaluation has returned, and the status of a request is
\* written once, never changed afterwards.
C16_StatusByResult ==
    /\ [](\A e \in Evals :
            /\ pc[e] = "done" =>
                /\ status[e] = 204 <=> result[e] = Nil
                /\ status[e] = 503 <=> result[e] # Nil
            /\ pc[e] # "done" => status[e] = 0)
    /\ [][\A e \in Evals :
            status'[e] # status[e] =>
                status[e] = 0 /\ pc[e] = "status" /\ pc'[e] = "done"]_vars

\* two requests on one handler, one answered 204 and one answered 503
C16_Witness ==
    \E e \in Evals, f \in Evals :
        /\ pc[e] = "done" /\ result[e] = Nil /\ status[e] = 204
        /\ pc[f] = "done" /\ result[f] = DeadlineExceeded /\ status[f] = 503

\* C17: a request on the info path is answered 404 as long as EnableInfo has
\* not been called and 200 once it has; the body served is h.infoPayload,
\* which is set when EnableInfo is called, from the data as it is then, and
\* never changes afterwards, whatever the caller stores into its map later.
C17_InfoFixedPayload ==
    /\ [](resp[1] = InfoPath =>
            IF resp[2] = 200
                THEN InfoEnabled /\ resp[3] = infoPayload
                ELSE resp[2] = 404 /\ resp[3] = <<>>)
    /\ [][/\ (resp' # resp /\ resp'[1] = InfoPath) =>
                resp'[2] = IF InfoEnabled THEN 200 ELSE 404
          /\ InfoEnabled => InfoEnabled' /\ infoPayload' = infoPayload
          /\ (~InfoEnabled /\ InfoEnabled') =>
                infoPayload' \in {Marshal(infoData'),
                                  Marshal(WithBuildInfo([k \in {} |-> 0], TRUE)),
                                  Marshal([k \in {} |-> 0])}
          /\ ~InfoEnabled' => infoPayload' = <<>>]_vars

\* the info endpoint was enabled with the caller's map, the caller has
\* changed the map since, and the body served is still the payload of then
C17_Witness ==
    /\ InfoEnabled
    /\ "version" \in DOMAIN infoData
    /\ infoData["custom"] = MaxData
    /\ resp = <<InfoPath, 200, infoPayload>>
    /\ infoPayload = Marshal(WithBuildInfo([k \in {"custom"} |-> 0], TRUE))

\* C18 as stated: until the first request is served, the handler answers
\* on the paths the variables hold
C18_Original ==
    (Constructed /\ resp = NoResp) =>
        Route(LivePath) = "live" /\ Route(ReadyPath) = "ready"

\* C18: the liveness and readiness routes are the values LivePath and
\* ReadyPath hold when New is called; an assignment after New, before or
\* after the first request, changes no route, and requests are answered by
\* the routes registered: 204 on the paths registered for liveness and
\* readiness and on no other path.
C18_PathsReadAtNew ==
    [][/\ (~Constructed /\ Constructed') => mux' = NewMux(LivePath, ReadyPath)
       /\ Constructed => {r \in mux' : r[2] # "info"} = {r \in mux : r[2] # "info"}
       /\ resp' # resp =>
            (resp'[2] = 204 <=>
                \E r \in mux : r[1] = resp'[1] /\ r[2] \in {"live", "ready"})]_vars

\* LivePath was "/alive" when New was called and has been set back since:
\* the handler answers liveness on "/alive"
C18_Witness ==
    /\ mux = NewMux("/alive", DefaultReadyPath)
    /\ LivePath = DefaultLivePath
    /\ resp = <<"/alive", 204, <<>>>>

\* a response was received by the URL check last run
GotResponse == probe[1] = "url" /\ probe[2][1] /\ probe[2][2] /\ ~probe[2][3]

C20_Only2xx ==
    (GotResponse /\ probe[2][4] \notin 200..299) => probe[3] # Nil

\* C21: a ping check calls PingContext once, with the context the check was
\* given; it returns an error that is ErrPingCheckFailed exactly when
\* PingContext returned an error, and nil exactly when PingContext returned
\* nil.
C21_PingCheck ==
    probe[1] = "ping" =>
        LET ret == PingContext(probe[2][1], probe[2][2])
        IN  /\ probe[4] = <<probe[2][2]>>
            /\ ret # Nil <=> ErrorIs(probe[3], ErrPingCheckFailed)
            /\ ret = Nil <=> probe[3] = Nil

\* a pinger that gives up with its context, run with a context past its
\* deadline: the check fails with ErrPingCheckFailed
C21_Witness ==
    probe = <<"ping", <<"ctx", DeadlineExceeded>>, <<"ping check failed", 2>>,
              <<DeadlineExceeded>>>>

\* C22: in one evaluation every check of the snapshot is started, whatever
\* has failed and whether or not the context is done, and returns at most
\* once (exactly once by the time Wait has returned); a check that has
\* returned is never run again; a check that observes its context sees the
\* context of its own evaluation.
C22_EachCheckOnce ==
    /\ [](\A e \in Evals :
            /\ \A j \in 1..Len(arrivals[e]), k \in 1..Len(arrivals[e]) :
                    arrivals[e][j][1] = arrivals[e][k][1] => j = k
            /\ \A i \in 1..Len(task[e]) :
                    task[e][i] = "done" <=>
                        \E k \in 1..Len(arrivals[e]) : arrivals[e][k][1] = i
            /\ Len(task[e]) <= Len(snap[e])
            /\ pc[e] \in {"wait", "log", "ret", "status", "done"} =>
                    Len(task[e]) = Len(snap[e])
            /\ pc[e] \in {"log", "ret", "status", "done"} =>
                    \A i \in 1..Len(snap[e]) :
                        Cardinality({k \in 1..Len(arrivals[e]) : arrivals[e][k][1] = i}) = 1
            /\ pc[e] = "launch" => ENABLED Launch(e))
    /\ [][\A e \in Evals :
            /\ Len(task'[e]) >= Len(task[e])
            /\ \A i \in 1..Len(task[e]) : task[e][i] = "done" => task'[e][i] = "done"
            /\ Len(arrivals'[e]) > Len(arrivals[e]) =>
                    LET a == arrivals'[e][Len(arrivals'[e])]
                    IN  (ObservesCtx(snap[e][a[1]]) /\ ctxErr[e] # Nil) => a[2] = ctxErr[e]]_vars

\* the context was past its deadline when the call was made and the check
\* registered first failed: the second check was run all the same and
\* returned the context's error
C22_Witness ==
    /\ Returned(1)
    /\ ctxDeadline[1] = {0}
    /\ Len(arrivals[1]) = 2
    /\ arrivals[1][1] = <<1, CheckErr(1), TRUE>>
    /\ arrivals[1][2] = <<2, DeadlineExceeded, TRUE>>

\* C23: what ExecuteReadyChecks returns is nil or the very error one of the
\* checks launched by this call returned; it is nil exactly when every check
\* this call launched returned nil, whatever became of the context.
C23_ResultFromChecks ==
    \A e \in Evals :
        Returned(e) =>
            /\ \/ result[e] = Nil
               \/ \E k \in 1..Len(arrivals[e]) : arrivals[e][k][2] = result[e]
            /\ result[e] = Nil <=>
                    \A k \in 1..Len(arrivals[e]) : arrivals[e][k][2] = Nil

\* the bounded context ran out while two checks that ignore it were running;
\* both returned nil and so did the call
C23_Witness ==
    \E e \in Evals :
        /\ Returned(e)
        /\ timeoutBound[e]
        /\ ctxErr[e] = DeadlineExceeded
        /\ Len(arrivals[e]) = 2
        /\ arrivals[e][1][3] /\ arrivals[e][2][3]
        /\ result[e] = Nil

\* every call has returned
AllReturned ==
    /\ \A e \in Evals : ~Active(e)
    /\ \A a \in Adders : pcA[a] = "idle"

\* C24: under fair scheduling, with checks that return once started, every
\* ExecuteReadyChecks call eventually returns and every AddCheck call
\* eventually returns; when all calls have returned nobody holds or waits
\* for the registry lock.
C24_CallsReturn ==
    /\ \A e \in Evals : Active(e) ~> Returned(e)
    /\ \A a \in Adders : (pcA[a] # "idle") ~> (pcA[a] = "idle")
    /\ [](AllReturned =>
            /\ Readers = {}
            /\ ~WriterAnnounced
            /\ \A e \in Evals : pc[e] # "rblocked")

\* all calls have returned: a readiness call that ran one check, and two
\* registrations, one before it and one after
C24_Witness ==
    /\ AllReturned
    /\ pc[1] = "done"
    /\ Len(checks) = 2
    /\ Len(arrivals[1]) = 1

====
